---- MODULE Spec2Model ----
(***************************************************************************)
(* State-machine model of led_cube_editor/editor.py: the frame / layer /   *)
(* LED model of LEDLayerEditor, the Qt signal wiring of LEDCubeEditor and  *)
(* the calls it makes on the preview sink (LEDCubeView).                   *)
(*                                                                         *)
(* Indices are the program's 0-based indices; a TLA+ sequence s holds the  *)
(* program's element i at s[i + 1].  Every action is one handler run to    *)
(* completion on the single GUI thread.  Frames removed by set_cube_size   *)
(* are scheduled with deleteLater() and are destroyed (with their signal   *)
(* connections) when control returns to the event loop, i.e. before the    *)
(* next handler is dispatched.                                             *)
(***************************************************************************)
EXTENDS Integers, Sequences, FiniteSets, TLC

\* ---------------------------------------------------------------- bounds
\* Largest frame count passed to set_cube_size.
MaxFrames == 2
\* Number of handler invocations explored from the constructed state.
MaxSteps == 3
\* Cube dimensions <<x, y, z>> handed to set_cube_size.
Configs == {<<2, 1, 2>>, <<1, 2, 1>>, <<2, 2, 1>>}
\* The cube loaded by the constructor ("5x5x5" scaled down), with MaxFrames
\* frames.
InitConfig == <<2, 1, 2>>

\* ------------------------------------------------------ program constants
MaxDuration == 65535
DefaultDuration == 5
FULL_CUBE == 0
ACTIVE_LAYER == 1
\* AnimationSettings: the range of the dimension spin boxes, and the
\* outputs of one controller in __update_tlc_count.
DimMin == 2
DimMax == 16
OutputsPerTlc == 16

VARIABLES
    frames,        \* LEDLayerEditor._layout widgets: sequence of Frame
    cur,           \* LEDLayerEditor._layout.currentIndex()
    display_mode,  \* LEDCubeEditor.__display_mode
    spin,          \* EditorControls.__frame_duration value
    sinkView,      \* preview sink: <<>> = whole cube, <<z>> = layer z shown
    sinkOn,        \* preview sink: coordinates last painted on by set_led
    op,            \* the handler that ran last, with its arguments
    err,           \* the exception it raised, "none" if it returned
    calls,         \* the calls it made on the preview sink, in order
    sigs,          \* the LEDWithPosition.led_changed emissions it caused
    steps,         \* handlers run so far
    settings,      \* the AnimationSettings of the Animation Setup dialog
    frame_menu,    \* EditorControls.__frame_menu: [count, index]
    layer_menu     \* EditorControls.__layer_menu: [count, index]

vars == <<frames, cur, display_mode, spin, sinkView, sinkOn, op, err, calls, sigs, steps,
          settings, frame_menu, layer_menu>>

\* What a handler of the editor leaves alone when it is not started from a
\* selector and is not part of the Animation Setup dialog.
others == <<settings, frame_menu, layer_menu>>

\* ------------------------------------------------------------- sequences
RECURSIVE Flatten(_)
Flatten(ss) == IF ss = <<>> THEN <<>> ELSE Head(ss) \o Flatten(Tail(ss))

Range(s) == {s[i] : i \in 1..Len(s)}

\* ------------------------------------------------------- LEDWithPosition
\* LEDWithPosition.__init__: an LED at (x, y, z), off, nothing emitted yet.
NewLed(x, y, z) ==
    [kind |-> "led", x |-> x, y |-> y, z |-> z, status |-> FALSE, last |-> FALSE]

NewLabel(text) == [kind |-> "label", text |-> text]

\* Mutant of EmitLedChanged: the comparison with the last state is missing.
EmitLedChangedAlways(led, state) ==
    [led |-> [led EXCEPT !.last = state],
     out |-> << <<led.x, led.y, led.z, state>> >>]

\* LEDWithPosition.__emit_led_changed: the slot of Led.status_changed.
EmitLedChanged(led, state) ==
    IF state # led.last
    THEN [led |-> [led EXCEPT !.last = state],
          out |-> << <<led.x, led.y, led.z, state>> >>]
    ELSE [led |-> led, out |-> <<>>]

\* Led.set_status as LEDWithPosition uses it: the status is stored and
\* reported through status_changed, whose slot is __emit_led_changed.
LedSetStatus(led, state) == EmitLedChanged([led EXCEPT !.status = state], state)

\* LEDWithPosition.state
LedState(led) == led.status

\* ------------------------------------------------------------------ Layer
\* Mutant of LayerRow: the y coordinate is not shifted to 0-based.
LayerRowShifted(x, y, z, r) ==
    <<NewLabel(x - r)>> \o [c \in 1..x |-> NewLed(c - 1, y - r, z)]

\* Layer.__init__, one pass of "for r in range(y)": the row label, then the
\* LEDs of grid row r, columns 0..x-1.
LayerRow(x, y, z, r) ==
    <<NewLabel(x - r)>> \o [c \in 1..x |-> NewLed(c - 1, y - r - 1, z)]

\* Layer.__init__: the items of the grid layout in the order they are added.
NewLayer(x, y, z) ==
    [layer_num |-> z,
     items |-> Flatten([r \in 1..y |-> LayerRow(x, y, z, r - 1)])
               \o [c \in 1..y |-> NewLabel(c)]]

\* Layer.get_leds: the positions of the layout items that are LEDs.
LedSlots(layer) == {i \in 1..Len(layer.items) : layer.items[i].kind = "led"}

\* Layer.get_leds, as the tuple of LEDs in layout order.
GetLeds(layer) == SelectSeq(layer.items, LAMBDA it : it.kind = "led")

\* ------------------------------------------------------------------ Frame
\* Mutant of DurationError: the upper end of the range is excluded.
DurationErrorStrict(ms) ==
    IF ~ms.int THEN "ValueError"
    ELSE IF MaxDuration > ms.v /\ ms.v >= 0 THEN "none" ELSE "ValueError"

\* Frame.duration setter: the error it raises for ms, "none" if it stores.
\* ms is [int |-> isinstance(ms, int), v |-> the number].
DurationError(ms) ==
    IF ~ms.int THEN "ValueError"
    ELSE IF MaxDuration >= ms.v /\ ms.v >= 0 THEN "none" ELSE "ValueError"

\* Frame.duration setter: the frame after "frame.duration = ms".
SetDuration(frame, ms) ==
    IF DurationError(ms) = "none" THEN [frame EXCEPT !.duration = ms.v] ELSE frame

\* Frame.__init__ with Frame.__setup_layers: z layers, the first added one
\* current (QStackedWidget), the default duration, led_changed unconnected.
NewFrame(x, y, z) ==
    SetDuration([layers |-> [l \in 1..z |-> NewLayer(x, y, l - 1)],
                 current |-> IF z > 0 THEN 0 ELSE -1,
                 duration |-> DefaultDuration,
                 conn |-> 0],
                [int |-> TRUE, v |-> DefaultDuration])

\* Mutant of FrameChangeLayer: the index is stored without a widget check.
FrameChangeLayerUnchecked(frame, idx) == [frame EXCEPT !.current = idx]

\* Frame.change_layer: QStackedWidget.setCurrentIndex ignores an index that
\* names no widget.
FrameChangeLayer(frame, idx) ==
    IF idx \in 0..(Len(frame.layers) - 1) THEN [frame EXCEPT !.current = idx] ELSE frame

\* Every LED of a frame, layer by layer: the tuple __set_frame_view builds.
FrameLeds(frame) == Flatten([l \in 1..Len(frame.layers) |-> GetLeds(frame.layers[l])])

\* ------------------------------------------------- LEDLayerEditor._layout
\* QStackedLayout.widget(i) is None unless 0 <= i < count().
HasWidget(fr, i) == i \in 0..(Len(fr) - 1)

\* QStackedLayout.setCurrentIndex: an index that names no widget is ignored.
SetCurrentIndex(fr, c, idx) == IF HasWidget(fr, idx) THEN idx ELSE c

\* QStackedLayout.addWidget: the first widget of an empty layout becomes the
\* current one, a later one leaves the current index alone.
AddWidget(st, w) ==
    [frames |-> Append(st.frames, w),
     cur |-> IF st.cur < 0 THEN Len(st.frames) ELSE st.cur]

\* QStackedLayout.removeWidget of the last widget: when it was the current
\* one the widget before it becomes current, -1 when none is left.
RemoveLast(st) ==
    LET n == Len(st.frames) - 1
    IN  [frames |-> SubSeq(st.frames, 1, n),
         cur |-> IF st.cur = n THEN n - 1 ELSE st.cur]

\* set_cube_size, "while self._layout.count() > 0": every frame is removed.
RECURSIVE RemoveAll(_)
RemoveAll(st) == IF Len(st.frames) > 0 THEN RemoveAll(RemoveLast(st)) ELSE st

\* set_cube_size, "for frame_num in range(frames)": k frames are added.
RECURSIVE AddFrames(_, _, _, _, _)
AddFrames(st, k, x, y, z) ==
    IF k = 0 THEN st ELSE AddFrames(AddWidget(st, NewFrame(x, y, z)), k - 1, x, y, z)

\* ------------------------------------------------------- LEDLayerEditor
\* Mutant of Disconnect: the previous frame stays connected.
DisconnectNothing(fr, i) == fr

\* frame.led_changed.disconnect(self.led_changed): every connection of the
\* frame's signal to the editor's is removed (none: RuntimeError, passed).
Disconnect(fr, i) == [fr EXCEPT ![i + 1].conn = 0]

\* frame.led_changed.connect(self.led_changed): one more connection.
Connect(fr, i) == [fr EXCEPT ![i + 1].conn = @ + 1]

\* change_frame, "if self._layout.count() <= idx < 0".
RangeGuard(fr, idx) == Len(fr) <= idx /\ idx < 0

\* LEDLayerEditor.change_frame on the layout st = [frames, cur]: the layout
\* afterwards, the exception raised, and whether frame_changed was emitted.
\* currentWidget() and widget(idx) are None when they name no widget, and
\* None has no led_changed: AttributeError.
change_frame(st, idx) ==
    IF RangeGuard(st.frames, idx)
    THEN [frames |-> st.frames, cur |-> st.cur, err |-> "ValueError", emitted |-> FALSE]
    ELSE IF ~HasWidget(st.frames, st.cur)
    THEN [frames |-> st.frames, cur |-> st.cur, err |-> "AttributeError", emitted |-> FALSE]
    ELSE LET f1 == Disconnect(st.frames, st.cur)
             c1 == SetCurrentIndex(f1, st.cur, idx)
         IN  IF ~HasWidget(f1, idx)
             THEN [frames |-> f1, cur |-> c1, err |-> "AttributeError", emitted |-> FALSE]
             ELSE [frames |-> Connect(f1, idx), cur |-> c1, err |-> "none", emitted |-> TRUE]

\* Mutant of ChangeDurationFrames: the duration is written to every frame.
ChangeDurationAll(fr, c, ms) == [i \in 1..Len(fr) |-> SetDuration(fr[i], ms)]

\* LEDLayerEditor.change_duration: the setter of the current frame.
ChangeDurationFrames(fr, c, ms) == [fr EXCEPT ![c + 1] = SetDuration(@, ms)]

\* LEDLayerEditor.set_cube_size up to its closing change_frame call.
Rebuild(st, x, y, z, n) == AddFrames(RemoveAll(st), n, x, y, z)

\* ---------------------------------------------------------- preview sink
\* LEDCubeView.set_led(x, y, z, state) as the sink remembers it.
SinkSetLed(on, call) ==
    IF call[5] THEN on \cup {<<call[2], call[3], call[4]>>}
    ELSE on \ {<<call[2], call[3], call[4]>>}

RECURSIVE SinkPaint(_, _)
SinkPaint(on, cs) ==
    IF cs = <<>> THEN on
    ELSE SinkPaint(IF Head(cs)[1] = "set_led" THEN SinkSetLed(on, Head(cs)) ELSE on, Tail(cs))

\* -------------------------------------------------- LEDCubeEditor slots
\* Mutant of SetFrameView: only the frame's current layer is pushed.
SetFrameViewCurrentLayer(frame) ==
    LET leds == GetLeds(frame.layers[frame.current + 1])
    IN  [i \in 1..Len(leds) |->
            <<"set_led", leds[i].x, leds[i].y, leds[i].z, LedState(leds[i])>>]

\* LEDCubeEditor.__set_frame_view: set_led for every LED of every layer.
SetFrameView(frame) ==
    LET leds == FrameLeds(frame)
    IN  [i \in 1..Len(leds) |->
            <<"set_led", leds[i].x, leds[i].y, leds[i].z, LedState(leds[i])>>]

\* Mutant of NewDisplayMode: the mode is stored whatever its value.
NewDisplayModeAny(current, mode) == mode

\* LEDCubeEditor.__change_display_mode: the display mode it leaves; a mode
\* that is neither 0 nor 1 matches no branch.
NewDisplayMode(current, mode) ==
    IF mode = FULL_CUBE THEN FULL_CUBE
    ELSE IF mode = ACTIVE_LAYER THEN ACTIVE_LAYER
    ELSE current

\* Mutant of UpdateLayerView: the layer index is read from the first frame
\* instead of the current one.
UpdateLayerViewFirstFrame(mode, fr, c) ==
    IF mode # FULL_CUBE THEN << <<"show_layer", fr[1].current>> >> ELSE <<>>

\* LEDCubeEditor.__update_layer_view: the sink calls it makes.
UpdateLayerView(mode, fr, c) ==
    IF mode # FULL_CUBE THEN << <<"show_layer", fr[c + 1].current>> >> ELSE <<>>

\* The layer the sink shows after a handler's calls: the last show_* call.
RECURSIVE SinkShow(_, _)
SinkShow(view, cs) ==
    IF cs = <<>> THEN view
    ELSE SinkShow(IF Head(cs)[1] = "show_layer" THEN <<Head(cs)[2]>>
                  ELSE IF Head(cs)[1] = "show_cube" THEN <<>>
                  ELSE view,
                  Tail(cs))

\* Mutant of Forward: every frame's led_changed reaches the sink.
ForwardUnconnected(frame, out) == [i \in 1..Len(out) |-> <<"set_led">> \o out[i]]

\* editor.led_changed -> cube_view.set_led, once per connection of the
\* emitting frame's led_changed to the editor's.
Forward(frame, out) ==
    Flatten([k \in 1..frame.conn |->
                [i \in 1..Len(out) |-> <<"set_led">> \o out[i]]])

\* ---------------------------------------------------- AnimationSettings
\* ceil(n / 16) of __update_tlc_count, n = x * y + z.
TlcCount(dim) ==
    LET n == dim[1] * dim[2] + dim[3]
    IN  IF n % OutputsPerTlc = 0 THEN n \div OutputsPerTlc ELSE n \div OutputsPerTlc + 1

\* AnimationSettings.__update_tlc_count, the slot of __cube_size_changed.
UpdateTlcCount(st) == [st EXCEPT !.tlc_count = TlcCount(st.dimension)]

\* Mutant of UpdateCubeSize: __cube_size_changed is not emitted.
UpdateCubeSizeSilent(st, axis, dimension) == [st EXCEPT !.dimension[axis + 1] = dimension]

\* AnimationSettings.__update_cube_size(axis, dimension): the dimension is
\* stored and __cube_size_changed emitted.
UpdateCubeSize(st, axis, dimension) ==
    UpdateTlcCount([st EXCEPT !.dimension[axis + 1] = dimension])

\* No dialog is open: the values the two dictionaries start from.
NoSettings == [open |-> FALSE, dimension |-> <<5, 5, 5>>, tlc_count |-> 0]

\* AnimationSettings.__init__: the dictionaries, the spin boxes set to the
\* stored dimensions before their valueChanged is connected, then
\* __cube_size_changed emitted once.
NewSettings == UpdateTlcCount([NoSettings EXCEPT !.open = TRUE])

\* ------------------------------------------------------------ the inputs
\* Frame indices offered to change_frame: every valid one, -1 (what a
\* cleared selector reports) and the two past the end.
FrameInputs == -1..(Len(frames) + 1)

\* Layer indices offered to the layer selector's signal.
LayerInputs == -1..Len(frames[cur + 1].layers)

\* Values handed to change_duration: the ends of the range, their outer
\* neighbours, an inner value, and a float (isinstance(ms, int) false).
DurationInputs ==
    {[int |-> TRUE, v |-> n] : n \in {-1, 0, 5000, MaxDuration, MaxDuration + 1}}
        \cup {[int |-> FALSE, v |-> 7]}

\* Values the user sets the duration spin box to (its range is 0..65535).
SpinInputs == {0, 5000, MaxDuration}

\* Display modes emitted by the two view buttons, and one no button emits.
ModeInputs == {FULL_CUBE, ACTIVE_LAYER, 2}

\* ----------------------------------------------------------------- Init
\* The slots of LEDLayerEditor.frame_changed(idx), in connection order:
\* __update_frame_duration_control, then __set_frame_view.
FrameChangedSlots(r, idx) ==
    IF r.emitted
    THEN /\ spin' = r.frames[idx + 1].duration
         /\ calls' = SetFrameView(r.frames[idx + 1])
    ELSE /\ spin' = spin
         /\ calls' = <<>>

\* LEDCubeEditor.__init__: display mode 0, then __load_cube(config, frames)
\* on empty controls: the sink loads the cube (all off, whole cube shown),
\* set_cube_size builds the frames and selects frame 0, and filling the two
\* selectors selects layer 0 and frame 0 again.
Init ==
    LET st == Rebuild([frames |-> <<>>, cur |-> -1],
                      InitConfig[1], InitConfig[2], InitConfig[3], MaxFrames)
        r  == change_frame([frames |-> change_frame(st, st.cur).frames, cur |-> st.cur], 0)
    IN  /\ frames = r.frames
        /\ cur = r.cur
        /\ display_mode = FULL_CUBE
        /\ spin = r.frames[1].duration
        /\ sinkView = <<>>
        /\ sinkOn = {}
        /\ op = [name |-> "init"]
        /\ err = "none"
        /\ calls = <<>>
        /\ sigs = <<>>
        /\ steps = 0
        /\ settings = NoSettings
        /\ frame_menu = [count |-> MaxFrames, index |-> 0]
        /\ layer_menu = [count |-> InitConfig[3], index |-> 0]

\* -------------------------------------------------------------- actions
Step == /\ steps < MaxSteps
        /\ steps' = steps + 1

\* EditorControls.frame_changed(idx) -> LEDLayerEditor.change_frame(idx),
\* and on success the slots of LEDLayerEditor.frame_changed.
EmitFrameChanged(idx) ==
    LET r == change_frame([frames |-> frames, cur |-> cur], idx)
    IN  /\ Step
        /\ frames' = r.frames
        /\ cur' = r.cur
        /\ err' = r.err
        /\ FrameChangedSlots(r, idx)
        /\ sinkOn' = SinkPaint(sinkOn, calls')
        /\ op' = [name |-> "change_frame", idx |-> idx, from |-> cur]
        /\ sigs' = <<>>
        /\ UNCHANGED <<display_mode, sinkView, settings>>

\* frame_changed(idx) emitted, or change_frame(idx) called, with any index
\* and without the frame selector changing.
ChangeFrame(idx) ==
    /\ EmitFrameChanged(idx)
    /\ UNCHANGED <<frame_menu, layer_menu>>

\* EditorControls.layer_changed(idx): LEDLayerEditor.change_layer(idx), then
\* LEDCubeEditor.__update_layer_view.
EmitLayerChanged(idx) ==
    /\ Step
    /\ frames' = [frames EXCEPT ![cur + 1] = FrameChangeLayer(@, idx)]
    /\ calls' = UpdateLayerView(display_mode, frames', cur)
    /\ sinkView' = SinkShow(sinkView, calls')
    /\ op' = [name |-> "layer_changed", idx |-> idx, old |-> frames[cur + 1].current]
    /\ err' = "none"
    /\ sigs' = <<>>
    /\ UNCHANGED <<cur, display_mode, spin, sinkOn, settings>>

\* layer_changed(idx) emitted with any index and without the layer selector
\* changing.
LayerChanged(idx) ==
    /\ EmitLayerChanged(idx)
    /\ UNCHANGED <<frame_menu, layer_menu>>

\* LEDLayerEditor.change_duration(ms), called with any value.
ChangeDuration(ms) ==
    /\ Step
    /\ frames' = ChangeDurationFrames(frames, cur, ms)
    /\ err' = DurationError(ms)
    /\ op' = [name |-> "change_duration", ms |-> ms, frame |-> cur,
              old |-> frames[cur + 1].duration]
    /\ calls' = <<>>
    /\ sigs' = <<>>
    /\ UNCHANGED <<cur, display_mode, spin, sinkView, sinkOn>>
    /\ UNCHANGED others

\* The user edits the duration spin box: valueChanged(v) -> duration_changed
\* -> LEDLayerEditor.change_duration(v).
SpinDuration(v) ==
    /\ Step
    /\ v # spin
    /\ spin' = v
    /\ frames' = ChangeDurationFrames(frames, cur, [int |-> TRUE, v |-> v])
    /\ err' = DurationError([int |-> TRUE, v |-> v])
    /\ op' = [name |-> "spin_duration", ms |-> [int |-> TRUE, v |-> v], frame |-> cur,
              old |-> frames[cur + 1].duration]
    /\ calls' = <<>>
    /\ sigs' = <<>>
    /\ UNCHANGED <<cur, display_mode, sinkView, sinkOn>>
    /\ UNCHANGED others

\* EditorControls.display_mode_changed(mode) -> __change_display_mode(mode).
ChangeDisplayMode(mode) ==
    /\ Step
    /\ display_mode' = NewDisplayMode(display_mode, mode)
    /\ calls' = IF mode = FULL_CUBE THEN << <<"show_cube">> >>
                ELSE IF mode = ACTIVE_LAYER THEN UpdateLayerView(display_mode', frames, cur)
                ELSE <<>>
    /\ sinkView' = SinkShow(sinkView, calls')
    /\ op' = [name |-> "change_display_mode", mode |-> mode]
    /\ err' = "none"
    /\ sigs' = <<>>
    /\ UNCHANGED <<frames, cur, spin, sinkOn>>
    /\ UNCHANGED others

\* The LED at layout position i of layer l of frame f is set to state (a
\* click sets the opposite of its status): Led.set_status ->
\* status_changed -> __emit_led_changed -> Layer.led_changed ->
\* Frame.led_changed -> (if connected) LEDLayerEditor.led_changed -> set_led.
SetStatus(f, l, i, state) ==
    LET led == frames[f + 1].layers[l + 1].items[i]
        r   == LedSetStatus(led, state)
    IN  /\ Step
        /\ frames' = [frames EXCEPT ![f + 1].layers[l + 1].items[i] = r.led]
        /\ sigs' = r.out
        /\ calls' = Forward(frames[f + 1], r.out)
        /\ sinkOn' = SinkPaint(sinkOn, calls')
        /\ op' = [name |-> "set_status", frame |-> f, x |-> led.x, y |-> led.y,
                  z |-> led.z, state |-> state, was |-> led.status]
        /\ err' = "none"
        /\ UNCHANGED <<cur, display_mode, spin, sinkView>>
        /\ UNCHANGED others

\* LEDLayerEditor.set_cube_size(x, y, z, n): the frames are replaced and
\* change_frame(currentIndex()) selects the first new one.
SetCubeSize(x, y, z, n) ==
    LET st == Rebuild([frames |-> frames, cur |-> cur], x, y, z, n)
        r  == change_frame(st, st.cur)
    IN  /\ Step
        /\ frames' = r.frames
        /\ cur' = r.cur
        /\ err' = r.err
        /\ FrameChangedSlots(r, st.cur)
        /\ sinkOn' = SinkPaint(sinkOn, calls')
        /\ op' = [name |-> "set_cube_size", x |-> x, y |-> y, z |-> z, n |-> n]
        /\ sigs' = <<>>
        /\ UNCHANGED <<display_mode, sinkView>>
        /\ UNCHANGED others

\* ------------------------------------------------------- specifications
\* Every handler but the frame selection.
Edit ==
    \/ \E idx \in LayerInputs : LayerChanged(idx)
    \/ \E ms \in DurationInputs : ChangeDuration(ms)
    \/ \E v \in SpinInputs : SpinDuration(v)
    \/ \E mode \in ModeInputs : ChangeDisplayMode(mode)
    \/ \E f \in 0..(Len(frames) - 1) :
         \E l \in 0..(Len(frames[f + 1].layers) - 1) :
           \E i \in LedSlots(frames[f + 1].layers[l + 1]) :
             \E state \in BOOLEAN : SetStatus(f, l, i, state)
    \/ \E c \in Configs : \E n \in 1..MaxFrames : SetCubeSize(c[1], c[2], c[3], n)

\* The program driven with any argument, valid or not.
Next ==
    \/ \E idx \in FrameInputs : ChangeFrame(idx)
    \/ Edit

Spec == Init /\ [][Next]_vars

\* The program when every frame selection names an existing frame (all the
\* frame selector can emit once it is filled): every change_frame call is a
\* frame switch.
NextNav ==
    \/ \E idx \in 0..(Len(frames) - 1) : ChangeFrame(idx)
    \/ Edit

SpecNav == Init /\ [][NextNav]_vars

\* ------------------------------------------------- through the controls
\* QComboBox.setCurrentIndex(i) on a selector: an entry that exists becomes
\* the current one; currentIndexChanged is emitted when the index changed.
MenuSelect(menu, i) ==
    IF i \in 0..(menu.count - 1) THEN [menu EXCEPT !.index = i] ELSE menu

MenuEmits(menu, i) == MenuSelect(menu, i).index # menu.index

\* Entry i of the frame selector is chosen (from the list, or the entry next
\* to the current one by __button_change_menu): currentIndexChanged(i) ->
\* frame_changed(i).
SelectFrame(i) ==
    /\ MenuEmits(frame_menu, i)
    /\ frame_menu' = MenuSelect(frame_menu, i)
    /\ layer_menu' = layer_menu
    /\ EmitFrameChanged(i)

\* Entry i of the layer selector is chosen: currentIndexChanged(i) ->
\* layer_changed(i).
SelectLayer(i) ==
    /\ MenuEmits(layer_menu, i)
    /\ layer_menu' = MenuSelect(layer_menu, i)
    /\ frame_menu' = frame_menu
    /\ EmitLayerChanged(i)

\* The LED button at layout position i of the layer on display (the current
\* layer of the current frame) is clicked and takes the opposite status.
ClickLed(i) ==
    LET l == frames[cur + 1].current
    IN  SetStatus(cur, l, i, ~frames[cur + 1].layers[l + 1].items[i].status)

\* The program driven through its window: the two selectors, the LED
\* buttons on display, the two view buttons and the duration spin box.
NextUI ==
    \/ \E i \in 0..(frame_menu.count - 1) : SelectFrame(i)
    \/ \E i \in 0..(layer_menu.count - 1) : SelectLayer(i)
    \/ \E i \in LedSlots(frames[cur + 1].layers[frames[cur + 1].current + 1]) : ClickLed(i)
    \/ \E mode \in {FULL_CUBE, ACTIVE_LAYER} : ChangeDisplayMode(mode)
    \/ \E v \in SpinInputs : SpinDuration(v)

SpecUI == Init /\ [][NextUI]_vars

\* The editor's variables, which the Animation Setup dialog leaves alone.
editor == <<frames, cur, display_mode, spin, sinkView, sinkOn, op, err, calls, sigs, steps,
            frame_menu, layer_menu>>

\* LEDCubeEditor.__animation_setup: the modal dialog builds its
\* AnimationSettings.
AnimationSetup ==
    /\ ~settings.open
    /\ settings' = NewSettings
    /\ UNCHANGED editor

\* A dimension spin box of the dialog takes a new value of its range:
\* valueChanged(v) -> __update_cube_size(axis, v).
DimensionChanged(axis, v) ==
    /\ settings.open
    /\ v # settings.dimension[axis + 1]
    /\ settings' = UpdateCubeSize(settings, axis, v)
    /\ UNCHANGED editor

\* The dialog ends (accepted or rejected) and is deleted.
CloseSetup ==
    /\ settings.open
    /\ settings' = NoSettings
    /\ UNCHANGED editor

\* The Animation Setup dialog on its own.
NextSettings ==
    \/ AnimationSetup
    \/ \E axis \in 0..2 : \E v \in DimMin..DimMax : DimensionChanged(axis, v)
    \/ CloseSetup

SpecSettings == Init /\ [][NextSettings]_vars

\* ============================================================== claims
\* The set_led calls the last handler made on the sink, in order.
SetLedCalls == SelectSeq(calls, LAMBDA c : c[1] = "set_led")

\* The LEDs of a layer / of a frame, as the set of their layout items.
LayerLedSet(layer) == {layer.items[i] : i \in LedSlots(layer)}
FrameLedSet(frame) == UNION {LayerLedSet(frame.layers[l]) : l \in 1..Len(frame.layers)}

\* The frames whose led_changed is connected to the editor's led_changed.
Connected == {i \in 0..(Len(frames) - 1) : frames[i + 1].conn > 0}

IsDurationOp == op.name \in {"change_duration", "spin_duration"}

\* ------------------------------------------------------------------- C1
\* C1 (as claimed): change_frame(idx) with idx outside [0, frame_count)
\* fails with the out-of-range error (ValueError "Out of range") and leaves
\* the current frame index unchanged.
C1_OutOfRangeSelectFails ==
    (op.name = "change_frame" /\ ~HasWidget(frames, op.idx))
        => (err = "ValueError" /\ cur = op.from)

\* ------------------------------------------------------------------- C2
\* C2: at most one frame has led_changed connected to the editor's, it is
\* connected at most once, and after a successful change_frame(idx) the
\* connected frame is exactly frame idx.
C2_OneSubscription ==
    /\ Cardinality(Connected) <= 1
    /\ \A i \in 1..Len(frames) : frames[i].conn <= 1
    /\ (op.name = "change_frame" /\ err = "none") => Connected = {op.idx}

\* A frame switch away from a connected frame has happened.
C2_Witness ==
    /\ op.name = "change_frame"
    /\ err = "none"
    /\ op.idx # op.from
    /\ Connected = {op.idx}
    /\ steps >= 2

\* ------------------------------------------------------------------- C3
\* C3: when every frame selection is a frame switch, a set_status that
\* changes an LED of the active frame makes exactly one sink call,
\* set_led(x, y, z, state); one that changes nothing, or that changes an LED
\* of a frame that is not the active one, makes none.
C3_ChangeDeliveredOnce ==
    op.name = "set_status" =>
        calls = IF op.state # op.was /\ op.frame = cur
                THEN << <<"set_led", op.x, op.y, op.z, op.state>> >>
                ELSE <<>>

\* An LED of the frame switched to is toggled and forwarded once.
C3_Witness ==
    /\ op.name = "set_status"
    /\ cur = 1
    /\ op.frame = cur
    /\ op.state # op.was
    /\ calls = << <<"set_led", op.x, op.y, op.z, op.state>> >>

\* ------------------------------------------------------------------- C4
\* C4 (as claimed): switching to ACTIVE_LAYER re-pushes the state of every
\* LED of the active frame's active layer and of no other, switching to
\* FULL_CUBE re-pushes the state of every LED of the active frame.
C4_ModeSwitchRepaints ==
    op.name = "change_display_mode" =>
        /\ op.mode = ACTIVE_LAYER =>
             Range(SetLedCalls) =
                {<<"set_led", led.x, led.y, led.z, led.status>> :
                    led \in LayerLedSet(frames[cur + 1].layers[frames[cur + 1].current + 1])}
        /\ op.mode = FULL_CUBE =>
             Range(SetLedCalls) =
                {<<"set_led", led.x, led.y, led.z, led.status>> :
                    led \in FrameLedSet(frames[cur + 1])}

\* C4 (amended): a display-mode switch makes no set_led call; switching to
\* ACTIVE_LAYER makes the one call show_layer(current layer index of the
\* active frame), switching to FULL_CUBE the one call show_cube().
C4_ModeSwitchShowsOnly ==
    op.name = "change_display_mode" =>
        /\ SetLedCalls = <<>>
        /\ op.mode = ACTIVE_LAYER =>
             calls = << <<"show_layer", frames[cur + 1].current>> >>
        /\ op.mode = FULL_CUBE => calls = << <<"show_cube">> >>

\* ACTIVE_LAYER is selected while layer 1 is current and an LED is on.
C4_Witness ==
    /\ op.name = "change_display_mode"
    /\ op.mode = ACTIVE_LAYER
    /\ frames[cur + 1].current = 1
    /\ \E led \in FrameLedSet(frames[cur + 1]) : led.status
    /\ calls = << <<"show_layer", 1>> >>

\* ------------------------------------------------------------------- C5
\* C5 (as claimed): in ACTIVE_LAYER mode, after a layer selection or a frame
\* switch the layer the sink shows is the current layer of the active frame.
C5_SinkShowsActiveLayer ==
    (/\ display_mode = ACTIVE_LAYER
     /\ op.name \in {"layer_changed", "change_frame"}
     /\ err = "none")
        => sinkView = <<frames[cur + 1].current>>

C7_EmitOnChangeOnly ==
    op.name = "set_status" =>
        /\ sigs = IF op.state # op.was
                  THEN << <<op.x, op.y, op.z, op.state>> >>
                  ELSE <<>>
        /\ \E led \in FrameLedSet(frames[op.frame + 1]) :
              /\ <<led.x, led.y, led.z>> = <<op.x, op.y, op.z>>
              /\ led.status = op.state

\* An LED that is on is set on again: nothing is emitted.
C7_Witness ==
    /\ op.name = "set_status"
    /\ op.was
    /\ op.state
    /\ sigs = <<>>

\* ------------------------------------------------------------------- C8
\* C8: after set_cube_size(x, y, z, n) there are n frames of z layers, each
\* layer holding x*y LEDs, one at every (cx, cy) of [0,x) x [0,y), with z
\* the layer index, all off, and the current frame index is 0.
C8_CubeRebuilt ==
    op.name = "set_cube_size" =>
        /\ Len(frames) = op.n
        /\ cur = 0
        /\ \A f \in 1..Len(frames) :
              /\ Len(frames[f].layers) = op.z
              /\ \A l \in 1..Len(frames[f].layers) :
                    LET leds == GetLeds(frames[f].layers[l])
                    IN  /\ Len(leds) = op.x * op.y
                        /\ \A cx \in 0..(op.x - 1) : \A cy \in 0..(op.y - 1) :
                              Cardinality({i \in 1..Len(leds) :
                                  leds[i].x = cx /\ leds[i].y = cy}) = 1
                        /\ \A i \in 1..Len(leds) :
                              leds[i].z = l - 1 /\ ~LedState(leds[i])

\* A 1 x 2 x 1 cube replaces a cube in which an LED was on (the sink still
\* has it on: its coordinate is outside the new cube).
C8_Witness ==
    /\ op.name = "set_cube_size"
    /\ <<op.x, op.y, op.z>> = <<1, 2, 1>>
    /\ sinkOn # {}
    /\ Len(frames) = op.n

\* ------------------------------------------------------------------- C9
\* C9 (as claimed): an integer in [0, 65535] is stored; an integer outside
\* fails with the range error; a non-integer fails with a type error, a
\* different kind of error.
C9_TypeErrorForNonInteger ==
    IsDurationOp =>
        IF ~op.ms.int THEN err = "TypeError"
        ELSE IF op.ms.v \in 0..MaxDuration
             THEN err = "none" /\ frames[op.frame + 1].duration = op.ms.v
             ELSE err = "ValueError"

\* C9 (amended): an integer in [0, 65535] is stored; an integer outside and
\* a non-integer both fail with ValueError (the same kind of error), and the
\* duration keeps its value.
C9_ValueErrorForBoth ==
    IsDurationOp =>
        IF op.ms.int /\ op.ms.v \in 0..MaxDuration
        THEN err = "none" /\ frames[op.frame + 1].duration = op.ms.v
        ELSE err = "ValueError" /\ frames[op.frame + 1].duration = op.old

\* 65535 is stored.
C9_Witness ==
    /\ op.name = "change_duration"
    /\ op.ms = [int |-> TRUE, v |-> MaxDuration]
    /\ err = "none"
    /\ frames[cur + 1].duration = MaxDuration

\* ------------------------------------------------------------------ C10
\* C10: change_duration changes no frame's duration but the active one's,
\* and a change_frame call (with the refresh of the duration control)
\* changes no frame's duration.
C10_DurationPerFrame ==
    [][/\ op'.name \in {"change_duration", "spin_duration"} =>
            \A i \in 1..Len(frames) :
                i # cur + 1 => frames'[i].duration = frames[i].duration
       /\ op'.name = "change_frame" =>
            \A i \in 1..Len(frames) : frames'[i].duration = frames[i].duration]_vars

\* Frame 0 set to 5000, a switch to frame 1 and back: 5000 and 5 are read.
C10_Witness ==
    /\ op.name = "change_frame"
    /\ op.idx = 0
    /\ op.from = 1
    /\ frames[1].duration = 5000
    /\ frames[2].duration = DefaultDuration
    /\ spin = 5000

\* ------------------------------------------------------------------ C11
\* C11 (as claimed): a layer index outside [0, z_count) selected on the
\* active frame fails with an out-of-range error; a valid index becomes the
\* frame's current layer index.
C11_OutOfRangeLayerFails ==
    op.name = "layer_changed" =>
        IF op.idx \in 0..(Len(frames[cur + 1].layers) - 1)
        THEN err = "none" /\ frames[cur + 1].current = op.idx
        ELSE err = "ValueError"

\* C11 (amended): a layer index outside [0, z_count) raises nothing and is
\* ignored, the current layer index keeps its value; a valid index becomes
\* the frame's current layer index.
C11_OutOfRangeLayerIgnored ==
    op.name = "layer_changed" =>
        /\ err = "none"
        /\ frames[cur + 1].current =
              IF op.idx \in 0..(Len(frames[cur + 1].layers) - 1) THEN op.idx ELSE op.old

\* Layer z_count (one past the end) is selected while layer 1 is current.
C11_Witness ==
    /\ op.name = "layer_changed"
    /\ op.idx = Len(frames[cur + 1].layers)
    /\ op.old = 1
    /\ frames[cur + 1].current = 1

\* ------------------------------------------------------------------ C12
\* C12: the display mode is FULL_CUBE after construction, is always
\* FULL_CUBE or ACTIVE_LAYER, and changes only in __change_display_mode
\* called with 0 or 1, to that value; every other handler, and a mode that
\* is neither 0 nor 1, leaves it as it is.
C12_DisplayModeMachine ==
    /\ [](/\ display_mode \in {FULL_CUBE, ACTIVE_LAYER}
          /\ steps = 0 => display_mode = FULL_CUBE)
    /\ [][display_mode' # display_mode =>
             /\ op'.name = "change_display_mode"
             /\ op'.mode \in {FULL_CUBE, ACTIVE_LAYER}
             /\ display_mode' = op'.mode]_vars

\* Mode 2 is selected in ACTIVE_LAYER mode and ignored.
C12_Witness ==
    /\ op.name = "change_display_mode"
    /\ op.mode = 2
    /\ display_mode = ACTIVE_LAYER

\* ------------------------------------------------------------------ C13
\* C13: while an AnimationSettings exists, tlc_count is the least integer
\* with 16 * tlc_count >= x * y + z for the dimensions it holds now.
C13_TlcCountCurrent ==
    settings.open =>
        LET n == settings.dimension[1] * settings.dimension[2] + settings.dimension[3]
        IN  /\ OutputsPerTlc * settings.tlc_count >= n
            /\ OutputsPerTlc * (settings.tlc_count - 1) < n

\* All three dimensions were raised to 16: 272 outputs, 17 controllers.
C13_Witness ==
    /\ settings.open
    /\ settings.dimension = <<DimMax, DimMax, DimMax>>
    /\ settings.tlc_count = 17

\* ------------------------------------------------------------------ C14
\* C14 (as claimed): whatever frame selections were refused before (an
\* index outside [0, frame_count), -1 included), an LED of the active frame
\* that changes state is still forwarded to the sink by one set_led call.
C14_ForwardedAfterRefusedSelect ==
    (op.name = "set_status" /\ op.frame = cur /\ op.state # op.was)
        => calls = << <<"set_led", op.x, op.y, op.z, op.state>> >>

\* ------------------------------------------------------------------ C15
\* C15: with every frame selection naming an existing frame, for every
\* coordinate of the cube the state last pushed to the sink by set_led (off
\* if none) is the stored status of that LED in the active frame.
C15_SinkMirrorsActiveFrame ==
    \A led \in FrameLedSet(frames[cur + 1]) :
        (<<led.x, led.y, led.z>> \in sinkOn) = led.status

\* A frame switch has just pushed a lit LED of the frame it switched to:
\* the LED was set while its frame was not the active one.
C15_Witness ==
    /\ op.name = "change_frame"
    /\ op.from # cur
    /\ err = "none"
    /\ \E led \in FrameLedSet(frames[cur + 1]) :
         /\ led.status
         /\ <<led.x, led.y, led.z>> \in sinkOn
         /\ <<"set_led", led.x, led.y, led.z, TRUE>> \in Range(calls)

\* ------------------------------------------------------------------ C16
\* C16 (as claimed): after any frame and layer selections made through the
\* controls, the index shown by the layer selector is the current layer
\* index of the active frame.
C16_LayerSelectorInSync ==
    layer_menu.index = frames[cur + 1].current

====
